---- MODULE Spec2Model ----
(***************************************************************************)
(* Model of the GTFS parser of the zim_slupsk integration                  *)
(* (custom_components/zim_slupsk/gtfs_parser.py): the tables load_data     *)
(* fills, the service calendar resolver service_is_active_on_date and the  *)
(* two queries get_next_departures and get_departures_for_week; and of     *)
(* download_gtfs_file of gtfs_downloader.py, which puts on disk the files  *)
(* load_data reads.                                                        *)
(*                                                                         *)
(* Representation of the values of the program:                            *)
(*  - a datetime.date is its proleptic Gregorian ordinal (date.toordinal), *)
(*  - a "YYYYMMDD" text is the number its digits spell (20240315),         *)
(*  - a "HH:MM:SS" text is the triple of the numbers its fields spell,     *)
(*  - an aware local datetime is [date |-> ordinal, secs |-> second of day]*)
(*    (all datetimes the parser compares carry the same tzinfo object, so  *)
(*    Python compares their wall-clock values),                            *)
(*  - a dict is [keys |-> keys in insertion order, val |-> key -> value],  *)
(*  - a csv row is a record whose fields are the columns of the file.      *)
(***************************************************************************)
EXTENDS Integers, Sequences, FiniteSets, TLC

VARIABLES
    fs,           \* the files on disk: the GTFS archive and the local calendar.txt
    data,         \* GTFSParser.data: table name -> table
    stop_id_map,  \* GTFSParser.stop_id_map: full stop name -> stop_id
    now,          \* the clock read by dt_util.now()
    ready,        \* whether an entry has been set up: its entities make the queries
    ret,          \* the last call made on the parser and what it returned
    loader,       \* where a load_data running step by step stands
    thread,       \* the query running on an executor thread, and what it has read
    net,          \* the server, the metadata file and the age of the archive
    hass,         \* Home Assistant: its start event, the entry and its scheduler tasks
    sensors       \* the BusSensor entities of the entry: line -> state and attributes

vars == <<fs, data, stop_id_map, now, ready, ret, loader, thread, net, hass, sensors>>

\* what the calls made in one piece leave alone
aside == <<loader, thread, net, hass, sensors>>

(***************************************************************************)
(* Bounds of the model.                                                    *)
(***************************************************************************)
MaxCalendar == 2
MaxCalendarDates == 2
MaxStopTimes == 2

BoundedSeq(S, n) == UNION {[1..k -> S] : k \in 0..n}

(***************************************************************************)
(* Python values: dict, list.sort, datetime.                               *)
(***************************************************************************)
EmptyDict == [keys |-> <<>>, val |-> [k \in {} |-> {}]]

DictHas(d, k) == k \in DOMAIN d.val

DictSet(d, k, v) ==
    [keys |-> IF DictHas(d, k) THEN d.keys ELSE Append(d.keys, k),
     val  |-> [x \in DOMAIN d.val \cup {k} |-> IF x = k THEN v ELSE d.val[x]]]

RECURSIVE DictOfRows(_, _, _)
\* {row[key]: row for row in reader}, built on top of dict acc
DictOfRows(rows, key, acc) ==
    IF rows = <<>> THEN acc
    ELSE DictOfRows(Tail(rows), key, DictSet(acc, Head(rows)[key], Head(rows)))

\* self.data[key] = v on the function self.data
SetKey(d, k, v) == [x \in DOMAIN d \cup {k} |-> IF x = k THEN v ELSE d[x]]

IsLeap(y) == (y % 4 = 0 /\ y % 100 # 0) \/ y % 400 = 0

DaysInMonth(y, m) ==
    IF m = 2 THEN (IF IsLeap(y) THEN 29 ELSE 28)
    ELSE IF m \in {4, 6, 9, 11} THEN 30 ELSE 31

\* _DAYS_BEFORE_MONTH of datetime.py: the days of a common year before a month
DAYS_BEFORE_MONTH == <<0, 31, 59, 90, 120, 151, 181, 212, 243, 273, 304, 334>>

DaysBeforeMonth(y, m) ==
    DAYS_BEFORE_MONTH[m] + (IF m > 2 /\ IsLeap(y) THEN 1 ELSE 0)

DaysBeforeYear(y) ==
    LET p == y - 1 IN p * 365 + p \div 4 - p \div 100 + p \div 400

\* date(y, m, d).toordinal()
ymd2ord(y, m, d) == DaysBeforeYear(y) + DaysBeforeMonth(y, m) + d

\* month and day of month of the n-th day (from 0) of year y: the estimate
\* (n + 50) >> 5 of the month is its month or the month after it
MonthOfDay(y, n) ==
    LET guess == (n + 50) \div 32
        month == IF DaysBeforeMonth(y, guess) > n THEN guess - 1 ELSE guess
    IN  <<month, n - DaysBeforeMonth(y, month) + 1>>

\* date.fromordinal(ord) as <<year, month, day>>
ord2ymd(ord) ==
    LET n0   == ord - 1
        n400 == n0 \div 146097
        r400 == n0 % 146097
        n100 == r400 \div 36524
        r100 == r400 % 36524
        n4   == r100 \div 1461
        r4   == r100 % 1461
        n1   == r4 \div 365
        r1   == r4 % 365
        year == n400 * 400 + n100 * 100 + n4 * 4 + n1 + 1
    IN  IF n1 = 4 \/ n100 = 4 THEN <<year - 1, 12, 31>>
        ELSE LET md == MonthOfDay(year, r1) IN <<year, md[1], md[2]>>

\* date.weekday(): Monday = 0 .. Sunday = 6
weekday(ord) == (ord + 6) % 7

\* date.strftime("%Y%m%d")
strftime_Ymd(ord) ==
    LET t == ord2ymd(ord) IN t[1] * 10000 + t[2] * 100 + t[3]

\* whether datetime.strptime(text, "%Y%m%d") returns (it raises ValueError otherwise)
strptime_Ymd_ok(text) ==
    LET y == text \div 10000
        m == (text \div 100) % 100
        d == text % 100
    IN  /\ y \in 1..9999
        /\ m \in 1..12
        /\ d \in 1..DaysInMonth(y, m)

\* datetime.strptime(text, "%Y%m%d").date()
strptime_Ymd(text) == ymd2ord(text \div 10000, (text \div 100) % 100, text % 100)

\* a <= b on two datetimes of the same tzinfo
DtLeq(a, b) == a.date < b.date \/ (a.date = b.date /\ a.secs <= b.secs)

DtLt(a, b) == a.date < b.date \/ (a.date = b.date /\ a.secs < b.secs)

(***************************************************************************)
(* Texts: a trip_headsign is the sequence of its characters.               *)
(***************************************************************************)
\* str.upper() and str.lower() of one character
Upper(c) == CASE c = "a" -> "A" [] c = "b" -> "B" [] c = "c" -> "C" [] OTHER -> c

Lower(c) == CASE c = "A" -> "a" [] c = "B" -> "b" [] c = "C" -> "c" [] OTHER -> c

\* str.capitalize()
capitalize(text) ==
    [i \in DOMAIN text |-> IF i = 1 THEN Upper(text[i]) ELSE Lower(text[i])]

\* str.replace('/', ' ')
replace_slash(text) == [i \in DOMAIN text |-> IF text[i] = "/" THEN " " ELSE text[i]]

(***************************************************************************)
(* Times of day and datetimes.                                             *)
(***************************************************************************)
\* a parse of the time that takes the hours 24..29 of a GTFS service day
strptime_HMS_ok_ServiceDay(text) ==
    /\ text[1] \in 0..29
    /\ text[2] \in 0..59
    /\ text[3] \in 0..59

\* whether datetime.strptime(text, "%H:%M:%S") returns (ValueError otherwise)
strptime_HMS_ok(text) ==
    /\ text[1] \in 0..23
    /\ text[2] \in 0..59
    /\ text[3] \in 0..59

\* datetime.strptime(text, "%H:%M:%S").time(), as the second of the day
strptime_HMS(text) == text[1] * 3600 + text[2] * 60 + text[3]

\* dt_util.as_local(datetime.combine(day, time)): the wall-clock value in the
\* local zone
combine(day, secs) == [date |-> day, secs |-> secs]

\* dt + timedelta(seconds = n)
AddSeconds(dt, n) ==
    [date |-> dt.date + (dt.secs + n) \div 86400, secs |-> (dt.secs + n) % 86400]

\* the offset of the local zone from UTC, in seconds (Europe/Warsaw, winter)
UtcOffset == 60 * 60

\* datetime.isoformat() of a local datetime: "YYYY-MM-DDTHH:MM:SS+HH:MM"
isoformat(dt) ==
    [ymd |-> strftime_Ymd(dt.date),
     hms |-> <<dt.secs \div 3600, (dt.secs \div 60) % 60, dt.secs % 60>>,
     utcoffset |-> UtcOffset]

\* datetime.fromisoformat(text), as the UTC datetime two datetimes of different
\* tzinfo objects are compared by
fromisoformat(text) ==
    AddSeconds(combine(strptime_Ymd(text.ymd), strptime_HMS(text.hms)), 0 - text.utcoffset)

\* strftime("%Y-%m-%d %H:%M:%S")
strftime_YmdHMS(dt) ==
    ord2ymd(dt.date) \o <<dt.secs \div 3600, (dt.secs \div 60) % 60, dt.secs % 60>>

RECURSIVE InsertByDatetime(_, _)
InsertByDatetime(sorted, x) ==
    IF sorted = <<>> THEN <<x>>
    ELSE IF DtLt(x.datetime, Head(sorted).datetime) THEN <<x>> \o sorted
    ELSE <<Head(sorted)>> \o InsertByDatetime(Tail(sorted), x)

RECURSIVE SortByDatetime(_)
\* list.sort(key=lambda x: x["datetime"]): stable
SortByDatetime(deps) ==
    IF deps = <<>> THEN <<>>
    ELSE InsertByDatetime(SortByDatetime(SubSeq(deps, 1, Len(deps) - 1)), deps[Len(deps)])

RECURSIVE InsertByKey(_, _)
InsertByKey(sorted, x) ==
    IF sorted = <<>> THEN <<x>>
    ELSE IF DtLt(x.key, Head(sorted).key) THEN <<x>> \o sorted
    ELSE <<Head(sorted)>> \o InsertByKey(Tail(sorted), x)

RECURSIVE SortByKey(_)
SortByKey(keyed) ==
    IF keyed = <<>> THEN <<>>
    ELSE InsertByKey(SortByKey(SubSeq(keyed, 1, Len(keyed) - 1)), keyed[Len(keyed)])

RECURSIVE WithStartKey(_)
WithStartKey(events) ==
    IF events = <<>> THEN <<>>
    ELSE <<[key |-> fromisoformat(Head(events).start), item |-> Head(events)]>>
         \o WithStartKey(Tail(events))

RECURSIVE Items(_)
Items(keyed) ==
    IF keyed = <<>> THEN <<>> ELSE <<Head(keyed).item>> \o Items(Tail(keyed))

\* the events left in the order the loops made them
SortByStart_Unsorted(events) == events

\* events.sort(key=lambda x: datetime.fromisoformat(x["start"])): the key of
\* each event is computed once, and the sort is stable
SortByStart(events) == Items(SortByKey(WithStartKey(events)))

(***************************************************************************)
(* What a call returns: a value, or the exception it raises.               *)
(***************************************************************************)
Return(v) == [exc |-> "None", value |-> v]

Raise(e) == [exc |-> e, value |-> FALSE]

(***************************************************************************)
(* GTFSParser.service_is_active_on_date                                    *)
(***************************************************************************)
\* weekday number -> column of calendar.txt
mapping == <<"monday", "tuesday", "wednesday", "thursday", "friday", "saturday", "sunday">>

\* the rows of calendar_dates for (service_id, check_date), in table order
cdates(d, service_id, check_date) ==
    LET cdate_str == strftime_Ymd(check_date)
    IN  SelectSeq(d["calendar_dates"],
                  LAMBDA row : row.service_id = service_id /\ row.date = cdate_str)

RECURSIVE ExceptionLoop(_)
\* the loop over the matching rows: the first row of type "1" or "2" decides
ExceptionLoop(rows) ==
    IF rows = <<>> THEN FALSE
    ELSE IF Head(rows).exception_type = "1" THEN TRUE
    ELSE IF Head(rows).exception_type = "2" THEN FALSE
    ELSE ExceptionLoop(Tail(rows))

\* the rows of calendar for service_id, in table order
crows(d, service_id) ==
    SelectSeq(d["calendar"], LAMBDA c : c.service_id = service_id)

\* CalendarFallback with the two ends of the range left out of it
CalendarFallback_OpenRange(row, check_date) ==
    LET start_date == strptime_Ymd(row.start_date)
        end_date   == strptime_Ymd(row.end_date)
    IN  IF ~(start_date < check_date /\ check_date < end_date)
        THEN Return(FALSE)
        ELSE Return(row[mapping[weekday(check_date) + 1]] = "1")

\* the fallback to calendar.txt, on the first row of the service
CalendarFallback(row, check_date) ==
    IF ~(strptime_Ymd_ok(row.start_date) /\ strptime_Ymd_ok(row.end_date))
    THEN Raise("ValueError")
    ELSE LET start_date == strptime_Ymd(row.start_date)
             end_date   == strptime_Ymd(row.end_date)
         IN  IF ~(start_date <= check_date /\ check_date <= end_date)
             THEN Return(FALSE)
             ELSE Return(row[mapping[weekday(check_date) + 1]] = "1")

\* service_is_active_on_date without the lookup in calendar_dates
service_is_active_on_date_CalendarOnly(d, service_id, check_date) ==
    IF "calendar" \notin DOMAIN d THEN Raise("KeyError")
    ELSE IF crows(d, service_id) = <<>> THEN Return(FALSE)
    ELSE CalendarFallback(crows(d, service_id)[1], check_date)

service_is_active_on_date(d, service_id, check_date) ==
    IF "calendar_dates" \notin DOMAIN d THEN Raise("KeyError")
    ELSE LET cd == cdates(d, service_id, check_date)
         IN  IF cd # <<>> THEN Return(ExceptionLoop(cd))
             ELSE IF "calendar" \notin DOMAIN d THEN Raise("KeyError")
             ELSE LET cr == crows(d, service_id)
                  IN  IF cr = <<>> THEN Return(FALSE)
                      ELSE CalendarFallback(cr[1], check_date)

(***************************************************************************)
(* GTFSParser.get_next_departures                                          *)
(***************************************************************************)
\* dict.get(key, default) on a csv row or on {}
Get(row, key, default) == IF key \in DOMAIN row THEN row[key] ELSE default

\* self.data["trips"].get(trip_id, {})
trip_info(d, trip_id) ==
    IF DictHas(d["trips"], trip_id) THEN d["trips"].val[trip_id] ELSE [k \in {} |-> {}]

RECURSIVE departures_all(_, _, _, _)
\* step 1: the stop times of stop_id joined with their trip, on today's date;
\* a row whose departure_time does not parse is skipped
departures_all(d, rows, stop_id, today_date) ==
    IF rows = <<>> THEN <<>>
    ELSE LET row  == Head(rows)
             rest == departures_all(d, Tail(rows), stop_id, today_date)
             info == trip_info(d, row.trip_id)
         IN  IF row.stop_id # stop_id THEN rest
             ELSE IF ~strptime_HMS_ok(row.departure_time) THEN rest
             ELSE <<[line |-> Get(info, "route_id", "Nieznana"),
                     direction |-> replace_slash(Get(info, "trip_headsign", <<>>)),
                     service_id |-> Get(info, "service_id", ""),
                     departure_time |-> row.departure_time,
                     datetime |-> combine(today_date, strptime_HMS(row.departure_time))]>>
                  \o rest

\* today's departures strictly after now
FutureToday_Strict(deps, t) == SelectSeq(deps, LAMBDA dep : DtLt(t, dep["datetime"]))

\* the departures of today that are not before now
FutureToday(deps, t) == SelectSeq(deps, LAMBDA dep : DtLeq(t, dep["datetime"]))

\* the departure left on today's date
Tomorrow_SameDay(dep, tomorrow) == dep

\* newdep: the departure moved to tomorrow
Tomorrow(dep, tomorrow) ==
    LET dt == combine(tomorrow, dep["datetime"].secs)
    IN  [dep EXCEPT !["datetime"] = dt, !["departure_time"] = strftime_YmdHMS(dt)]

\* the departures of the list whose service runs on day
ActiveOn(d, deps, day) ==
    SelectSeq(deps, LAMBDA dep : service_is_active_on_date(d, dep.service_id, day).value)

\* the exception the calendar checks of the list raise, "None" when none does
RaisedOn(d, deps, day) ==
    LET bad == SelectSeq(deps,
                   LAMBDA dep : service_is_active_on_date(d, dep.service_id, day).exc # "None")
    IN  IF bad = <<>> THEN "None"
        ELSE service_is_active_on_date(d, bad[1].service_id, day).exc

OfLine(deps, line) == SelectSeq(deps, LAMBDA dep : dep.line = line)

\* how many departures a line keeps: len(next_deps) >= 2 ends both loops
MaxPerLine == 2

Take(seq, n) == SubSeq(seq, 1, IF Len(seq) < n THEN Len(seq) ELSE n)

\* today's departures followed by tomorrow's, without the cap
next_deps_Uncapped(today_deps, tomorrow_deps) == today_deps \o tomorrow_deps

\* next_deps of one line with the tomorrow pool never used
next_deps_TodayOnly(today_deps, tomorrow_deps) == Take(today_deps, MaxPerLine)

\* next_deps of one line: today's departures, then tomorrow's while short of two
next_deps(today_deps, tomorrow_deps) ==
    LET first == Take(today_deps, MaxPerLine)
    IN  IF Len(first) < MaxPerLine
        THEN first \o Take(tomorrow_deps, MaxPerLine - Len(first))
        ELSE first

\* if next_deps: results[line] = next_deps
results(lists) == [line \in {l \in DOMAIN lists : lists[l] # <<>>} |-> lists[line]]

get_next_departures(d, t, stop_id) ==
    IF "stop_times" \notin DOMAIN d \/ "trips" \notin DOMAIN d
    THEN Return([line \in {} |-> <<>>])
    ELSE LET today_date == t.date
             all        == SortByDatetime(
                               departures_all(d, d["stop_times"], stop_id, today_date))
             future     == FutureToday(all, t)
             tomorrow   == today_date + 1
             moved      == [i \in DOMAIN all |-> Tomorrow(all[i], tomorrow)]
         IN  IF RaisedOn(d, future, today_date) # "None"
             THEN Raise(RaisedOn(d, future, today_date))
             ELSE IF RaisedOn(d, moved, tomorrow) # "None"
             THEN Raise(RaisedOn(d, moved, tomorrow))
             ELSE LET future_today == ActiveOn(d, future, today_date)
                      tomorrow_all == ActiveOn(d, moved, tomorrow)
                      all_lines == {future_today[i].line : i \in DOMAIN future_today}
                                   \cup {tomorrow_all[i].line : i \in DOMAIN tomorrow_all}
                  IN  Return(results([line \in all_lines |->
                                next_deps(SortByDatetime(OfLine(future_today, line)),
                                          SortByDatetime(OfLine(tomorrow_all, line)))]))

(***************************************************************************)
(* GTFSParser.get_departures_for_week                                      *)
(***************************************************************************)
\* range(7): the days of the week schedule
WeekDays == 7

\* timedelta(minutes=1): the duration of an event, in seconds
EventSeconds == 60 * 1

\* the event of one stop time of a trip on current_day
Event(d, trip, line, stop_id, dep_datetime) ==
    LET trip_headsign ==
            replace_slash(capitalize(Get(trip, "trip_headsign", <<"Nieznany kierunek">>)))
        stop == d["stops"].val[stop_id]
    IN  [title |-> <<"Linia ", line, " -> ">> \o trip_headsign,
         start |-> isoformat(dep_datetime),
         end |-> isoformat(AddSeconds(dep_datetime, EventSeconds)),
         description |-> <<"Linia ", line, " -> ">> \o trip_headsign,
         line |-> line,
         latitude |-> Get(stop, "stop_lat", "0.0"),
         longitude |-> Get(stop, "stop_lon", "0.0"),
         stop_name |-> Get(stop, "stop_name", "Nieznany"),
         stop_code |-> Get(stop, "stop_code", "")]

RECURSIVE StopTimesLoop(_, _, _, _, _, _, _, _)
\* the loop over stop_times for one trip and day; acc is [exc, events]
StopTimesLoop(d, rows, trip_id, trip, line, stop_id, current_day, acc) ==
    IF rows = <<>> \/ acc.exc # "None" THEN acc
    ELSE LET stop_time == Head(rows)
             skip == StopTimesLoop(d, Tail(rows), trip_id, trip, line, stop_id,
                                   current_day, acc)
         IN  IF stop_time.trip_id # trip_id \/ stop_time.stop_id # stop_id THEN skip
             ELSE IF ~strptime_HMS_ok(stop_time.departure_time) THEN skip
             ELSE LET dep_datetime ==
                          combine(current_day, strptime_HMS(stop_time.departure_time))
                      end_datetime == AddSeconds(dep_datetime, EventSeconds)
                  IN  IF DtLt(end_datetime, acc.now) THEN skip
                      ELSE IF "stops" \notin DOMAIN d \/ ~DictHas(d["stops"], stop_id)
                      THEN [acc EXCEPT !.exc = "KeyError"]
                      ELSE StopTimesLoop(d, Tail(rows), trip_id, trip, line, stop_id,
                               current_day,
                               [acc EXCEPT !.events =
                                    Append(@, Event(d, trip, line, stop_id, dep_datetime))])

RECURSIVE TripsLoop_EveryService(_, _, _, _, _, _)
\* the loop over the trips without the check of the calendar
TripsLoop_EveryService(d, keys, line, stop_id, current_day, acc) ==
    IF keys = <<>> \/ acc.exc # "None" THEN acc
    ELSE LET trip_id == Head(keys)
             trip    == d["trips"].val[trip_id]
         IN  IF Get(trip, "route_id", "") # line
             THEN TripsLoop_EveryService(d, Tail(keys), line, stop_id, current_day, acc)
             ELSE TripsLoop_EveryService(d, Tail(keys), line, stop_id, current_day,
                      StopTimesLoop(d, Get(d, "stop_times", <<>>), trip_id, trip, line,
                                    stop_id, current_day, acc))

RECURSIVE TripsLoop(_, _, _, _, _, _)
\* the loop over self.data["trips"].items() for one day, in the order of the dict
TripsLoop(d, keys, line, stop_id, current_day, acc) ==
    IF keys = <<>> \/ acc.exc # "None" THEN acc
    ELSE LET trip_id == Head(keys)
             trip    == d["trips"].val[trip_id]
             skip    == TripsLoop(d, Tail(keys), line, stop_id, current_day, acc)
             active  == service_is_active_on_date(d, Get(trip, "service_id", ""),
                                                  current_day)
         IN  IF Get(trip, "route_id", "") # line THEN skip
             ELSE IF active.exc # "None" THEN [acc EXCEPT !.exc = active.exc]
             ELSE IF ~active.value THEN skip
             ELSE TripsLoop(d, Tail(keys), line, stop_id, current_day,
                      StopTimesLoop(d, Get(d, "stop_times", <<>>), trip_id, trip, line,
                                    stop_id, current_day, acc))

RECURSIVE DaysLoop(_, _, _, _, _, _)
\* for day_offset in range(7)
DaysLoop(d, day_offset, line, stop_id, today, acc) ==
    IF day_offset >= WeekDays \/ acc.exc # "None" THEN acc
    ELSE DaysLoop(d, day_offset + 1, line, stop_id, today,
                  TripsLoop(d, d["trips"].keys, line, stop_id, today + day_offset, acc))

get_departures_for_week(d, t, line, stop_id) ==
    IF "trips" \notin DOMAIN d THEN Raise("KeyError")
    ELSE LET acc == DaysLoop(d, 0, line, stop_id, t.date,
                             [exc |-> "None", events |-> <<>>, now |-> t])
         IN  IF acc.exc # "None" THEN Raise(acc.exc)
             ELSE Return(SortByStart(acc.events))

(***************************************************************************)
(* GTFSParser.load_data                                                    *)
(***************************************************************************)
\* the key of a stop in stop_id_map: f"{stop_name} {stop_code}".strip()
full_name(stop) ==
    IF stop.stop_code = "" THEN stop.stop_name
    ELSE stop.stop_name \o " " \o stop.stop_code

RECURSIVE MapStops(_, _, _)
\* the loop filling stop_id_map from the stops dict, in its order
MapStops(keys, stops, m) ==
    IF keys = <<>> THEN m
    ELSE MapStops(Tail(keys), stops,
                  SetKey(m, full_name(stops.val[Head(keys)]), Head(keys)))

\* a member of the archive that is in namelist() and whose read and parse succeed
Readable(z, name) == name \in DOMAIN z /\ z[name].ok

\* the parser once stops.txt is read: the table is assigned and its names are
\* added to stop_id_map
StopsRead(s, stops) ==
    [ok |-> TRUE,
     data |-> SetKey(s.data, "stops", stops),
     stop_id_map |-> MapStops(stops.keys, stops, s.stop_id_map)]

\* with z.open('stops.txt')
ReadStops(z, s) ==
    IF ~Readable(z, "stops.txt") THEN [s EXCEPT !.ok = FALSE]
    ELSE StopsRead(s, DictOfRows(z["stops.txt"].rows, "stop_id", EmptyDict))

\* with z.open('stop_times.txt')
ReadStopTimes(z, s) ==
    IF ~s.ok THEN s
    ELSE IF ~Readable(z, "stop_times.txt") THEN [s EXCEPT !.ok = FALSE]
    ELSE [s EXCEPT !.data = SetKey(@, "stop_times", z["stop_times.txt"].rows)]

\* with z.open('trips.txt')
ReadTrips(z, s) ==
    IF ~s.ok THEN s
    ELSE IF ~Readable(z, "trips.txt") THEN [s EXCEPT !.ok = FALSE]
    ELSE [s EXCEPT !.data = SetKey(@, "trips",
              DictOfRows(z["trips.txt"].rows, "trip_id", EmptyDict))]

\* calendar.txt of the local folder
ReadCalendar(calendar, s) ==
    IF ~s.ok THEN s
    ELSE IF ~calendar.exists THEN [s EXCEPT !.data = SetKey(@, "calendar", <<>>)]
    ELSE IF ~calendar.ok THEN [s EXCEPT !.ok = FALSE]
    ELSE [s EXCEPT !.data = SetKey(@, "calendar", calendar.rows)]

\* calendar_dates.txt of the archive
ReadCalendarDates(z, s) ==
    IF ~s.ok THEN s
    ELSE IF "calendar_dates.txt" \notin DOMAIN z
         THEN [s EXCEPT !.data = SetKey(@, "calendar_dates", <<>>)]
    ELSE IF ~z["calendar_dates.txt"].ok THEN [s EXCEPT !.ok = FALSE]
    ELSE [s EXCEPT !.data = SetKey(@, "calendar_dates", z["calendar_dates.txt"].rows)]

\* the members of the archive read one after the other into the parser s
ReadMembers(z, calendar, s) ==
    ReadCalendarDates(z,
        ReadCalendar(calendar, ReadTrips(z, ReadStopTimes(z, ReadStops(z, s)))))

\* the parser after the steps of load_data up to the first one that fails
load_data(f, d, m) ==
    IF ~f.gtfs.exists THEN [ok |-> FALSE, data |-> d, stop_id_map |-> m]
    ELSE IF ~f.gtfs.zip_ok THEN [ok |-> FALSE, data |-> d, stop_id_map |-> m]
    ELSE IF ~({"stops.txt", "stop_times.txt", "trips.txt"} \subseteq DOMAIN f.gtfs.members)
         THEN [ok |-> FALSE, data |-> d, stop_id_map |-> m]
    ELSE ReadMembers(f.gtfs.members, f.calendar,
                     [ok |-> TRUE, data |-> d, stop_id_map |-> m])

(***************************************************************************)
(* The feeds of the model.                                                 *)
(***************************************************************************)
Member(rows) == [ok |-> TRUE, rows |-> rows]

StopRow(id, name, code) ==
    [stop_id |-> id, stop_name |-> name, stop_code |-> code,
     stop_lat |-> "54.46", stop_lon |-> "17.02"]

TripRow(id, route, headsign, service) ==
    [trip_id |-> id, route_id |-> route, trip_headsign |-> headsign,
     service_id |-> service]

StopTimeRow(trip, stop, time) ==
    [trip_id |-> trip, stop_id |-> stop, departure_time |-> time]

CalendarRow(service, days, start, end) ==
    [service_id |-> service,
     monday |-> days[1], tuesday |-> days[2], wednesday |-> days[3],
     thursday |-> days[4], friday |-> days[5], saturday |-> days[6],
     sunday |-> days[7],
     start_date |-> start, end_date |-> end]

CalendarDateRow(service, date, type) ==
    [service_id |-> service, date |-> date, exception_type |-> type]

MonFri == <<"1", "1", "1", "1", "1", "0", "0">>
SatSun == <<"0", "0", "0", "0", "0", "1", "1">>
AllDays == <<"1", "1", "1", "1", "1", "1", "1">>

BaseStops == <<StopRow("X", "Dworzec", "01"), StopRow("Y", "Rynek", "")>>

BaseTrips ==
    <<TripRow("t1", "7", <<"a", "/", "B">>, "S"),
      TripRow("t2", "7", <<"c">>, "T"),
      TripRow("t3", "9", <<"a", "/", "B">>, "S")>>

\* an archive all of whose members read, and the calendar.txt beside it
Feed(stops, stop_times, trips, calendar, calendar_dates) ==
    [gtfs |-> [exists |-> TRUE, zip_ok |-> TRUE,
               members |-> [n \in {"stops.txt", "stop_times.txt", "trips.txt",
                                   "calendar_dates.txt"} |->
                    CASE n = "stops.txt" -> Member(stops)
                      [] n = "stop_times.txt" -> Member(stop_times)
                      [] n = "trips.txt" -> Member(trips)
                      [] n = "calendar_dates.txt" -> Member(calendar_dates)]],
     calendar |-> [exists |-> TRUE, ok |-> TRUE, rows |-> calendar]]

(***************************************************************************)
(* The calendar resolver on bounded calendar tables: the service "S" of    *)
(* the spec's scenario A (Mon-Fri, 2024-01-01..2024-12-31, 2024-03-15      *)
(* removed) and its variations, asked about Thursday 2024-03-14, Friday    *)
(* 2024-03-15 and Saturday 2024-03-16.                                     *)
(***************************************************************************)
Services == {"S", "T"}

QueryDates == {ymd2ord(2024, 3, 14), ymd2ord(2024, 3, 15), ymd2ord(2024, 3, 16)}

CalendarRows ==
    {CalendarRow("S", days, r[1], r[2]) :
        days \in {MonFri, SatSun},
        r \in {<<20240101, 20241231>>, <<20240315, 20240315>>}}
    \cup {CalendarRow("T", AllDays, 20240101, 20241231)}

CalendarDateRows ==
    {CalendarDateRow("S", 20240315, t) : t \in {"1", "2", "3"}}
    \cup {CalendarDateRow("S", 20240314, "2"),
          CalendarDateRow("T", 20240315, "1")}

\* no server is asked, and the archive on disk is fresh
Offline == [fresh |-> TRUE]

\* Home Assistant before its start event: no entry set up, no listener, no task
NotStarted ==
    [started |-> FALSE, setup |-> FALSE, setups |-> 0, listeners |-> 0,
     tasks |-> <<>>, scheduler |-> 0]

\* the state of the parser after GTFSParser.__init__, before any entry is set up
InitParser ==
    /\ data = [k \in {} |-> {}]
    /\ stop_id_map = [k \in {} |-> {}]
    /\ ready = FALSE
    /\ ret = [op |-> "__init__"]
    /\ loader = "idle"
    /\ thread = [pc |-> "idle"]
    /\ hass = NotStarted
    /\ sensors = [line \in {} |-> {}]

InitCalendar ==
    /\ \E calendar \in BoundedSeq(CalendarRows, MaxCalendar),
          calendar_dates \in BoundedSeq(CalendarDateRows, MaxCalendarDates) :
          fs = Feed(BaseStops, <<>>, BaseTrips, calendar, calendar_dates)
    /\ now = combine(ymd2ord(2024, 3, 14), 0)
    /\ InitParser
    /\ net = Offline

(***************************************************************************)
(* The queries on bounded stop_times tables: the stops "X" and "Y", the    *)
(* lines "7" (trips t1 of service "S" and t2 of service "T") and "9" (trip *)
(* t3 of service "S"), on Wednesday 2024-02-28.                            *)
(***************************************************************************)
Stops == {"X", "Y"}

Lines == {"7", "9"}

Today == ymd2ord(2024, 2, 28)

StopTimeRows ==
    {StopTimeRow("t1", "X", <<6, 0, 0>>),
     StopTimeRow("t1", "X", <<23, 50, 0>>),
     StopTimeRow("t2", "X", <<6, 0, 0>>),
     StopTimeRow("t3", "X", <<23, 50, 0>>),
     StopTimeRow("t1", "Y", <<6, 0, 0>>)}

\* the calendars of the feeds: <<calendar, calendar_dates>>
EveryDay ==
    <<  <<CalendarRow("S", AllDays, 20240101, 20241231),
          CalendarRow("T", AllDays, 20240101, 20241231)>>,
        <<>>  >>

\* "S" runs on workdays but not tomorrow; "T" runs tomorrow only, as an added date
Mixed ==
    <<  <<CalendarRow("S", MonFri, 20240101, 20241231)>>,
        <<CalendarDateRow("S", 20240229, "2"),
          CalendarDateRow("T", 20240229, "1")>>  >>

Calendars == {EveryDay, Mixed}

\* the values of the clock: the time of a departure, inside the minute an
\* event of 23:50 lasts, and after the last departure of the day
Clock ==
    {combine(Today, strptime_HMS(<<6, 0, 0>>)),
     combine(Today, strptime_HMS(<<23, 50, 30>>)),
     combine(Today, strptime_HMS(<<23, 55, 0>>))}

InitDepartures ==
    /\ \E stop_times \in BoundedSeq(StopTimeRows, MaxStopTimes), c \in Calendars :
          fs = Feed(BaseStops, stop_times, BaseTrips, c[1], c[2])
    /\ now \in Clock
    /\ InitParser
    /\ net = Offline

(***************************************************************************)
(* Actions.                                                                *)
(***************************************************************************)
\* async_setup_entry calls load_data, and forwards the entry to the sensor and
\* calendar platforms, whose entities make the queries, once it has returned True
LoadData ==
    \E r \in {load_data(fs, data, stop_id_map)} :
        /\ data' = r.data
        /\ stop_id_map' = r.stop_id_map
        /\ ready' = (ready \/ r.ok)
        /\ ret' = [op |-> "load_data", exc |-> "None", value |-> r.ok]
        /\ UNCHANGED <<fs, now>>
        /\ UNCHANGED aside

ServiceIsActiveOnDate(service_id, check_date) ==
    /\ ready
    /\ \E r \in {service_is_active_on_date(data, service_id, check_date)} :
          /\ ret' = [op |-> "service_is_active_on_date", service_id |-> service_id,
                     check_date |-> check_date, exc |-> r.exc, value |-> r.value]
          /\ UNCHANGED <<fs, data, stop_id_map, ready, now>>
          /\ UNCHANGED aside

\* whether the call being made repeats the last one: same arguments, same
\* clock value, nothing done in between
Again(op, args) ==
    /\ ret.op = op
    /\ ret.args = args
    /\ ret.now = now

\* a query that hands out the stop_times table and leaves the parser without it
GetNextDepartures_Consuming(stop_id) ==
    /\ ready
    /\ \E r \in {get_next_departures(data, now, stop_id)} :
          /\ ret' = [op |-> "get_next_departures", args |-> <<stop_id>>, now |-> now,
                     again |-> Again("get_next_departures", <<stop_id>>),
                     exc |-> r.exc, value |-> r.value]
          /\ data' = SetKey(data, "stop_times", <<>>)
          /\ UNCHANGED <<fs, stop_id_map, ready, now>>
          /\ UNCHANGED aside

GetNextDepartures(stop_id) ==
    /\ ready
    /\ \E r \in {get_next_departures(data, now, stop_id)} :
          /\ ret' = [op |-> "get_next_departures", args |-> <<stop_id>>, now |-> now,
                     again |-> Again("get_next_departures", <<stop_id>>),
                     exc |-> r.exc, value |-> r.value]
          /\ UNCHANGED <<fs, data, stop_id_map, ready, now>>
          /\ UNCHANGED aside

GetDeparturesForWeek(line, stop_id) ==
    /\ ready
    /\ \E r \in {get_departures_for_week(data, now, line, stop_id)} :
          /\ ret' = [op |-> "get_departures_for_week", args |-> <<line, stop_id>>,
                     now |-> now,
                     again |-> Again("get_departures_for_week", <<line, stop_id>>),
                     exc |-> r.exc, value |-> r.value]
          /\ UNCHANGED <<fs, data, stop_id_map, ready, now>>
          /\ UNCHANGED aside

\* time passes
Tick ==
    /\ \E t \in Clock : DtLt(now, t) /\ now' = t
    /\ ret' = [op |-> "tick"]
    /\ UNCHANGED <<fs, data, stop_id_map, ready>>
    /\ UNCHANGED aside

NextCalendar ==
    \/ LoadData
    \/ \E service_id \in Services, check_date \in QueryDates :
          ServiceIsActiveOnDate(service_id, check_date)

SpecCalendar == InitCalendar /\ [][NextCalendar]_vars

NextDepartures ==
    \/ LoadData
    \/ \E stop_id \in Stops : GetNextDepartures(stop_id)
    \/ \E line \in Lines, stop_id \in Stops : GetDeparturesForWeek(line, stop_id)
    \/ Tick

SpecDepartures == InitDepartures /\ [][NextDepartures]_vars

(***************************************************************************)
(* Loading again: the archive is replaced by a download, which writes what *)
(* the server sent without looking at it, and the same parser loads it.    *)
(***************************************************************************)
\* the feed the parser loads first
OldFeed ==
    Feed(BaseStops,
         <<StopTimeRow("t1", "X", <<6, 0, 0>>), StopTimeRow("t1", "Y", <<6, 0, 0>>)>>,
         BaseTrips, EveryDay[1], EveryDay[2])

\* the feed of the next timetable: stop X has a new code, stop Y is replaced by
\* stop Z, and the trips are new
NewFeed ==
    Feed(<<StopRow("X", "Dworzec", "02"), StopRow("Z", "Port", "")>>,
         <<StopTimeRow("t4", "X", <<23, 50, 0>>), StopTimeRow("t5", "Z", <<6, 0, 0>>)>>,
         <<TripRow("t4", "7", <<"c">>, "S"), TripRow("t5", "9", <<"c">>, "T")>>,
         Mixed[1], Mixed[2])

\* the archive with a member that is listed but does not read or decode
Unreadable(f, name) == [f EXCEPT !.gtfs.members[name].ok = FALSE]

\* the archive without a member
Without(f, name) ==
    [f EXCEPT !.gtfs.members = [n \in DOMAIN f.gtfs.members \ {name} |-> f.gtfs.members[n]]]

ArchiveMembers == {"stops.txt", "stop_times.txt", "trips.txt", "calendar_dates.txt"}

\* what a download can leave at GTFS_FILE_PATH and beside it
Archives ==
    {OldFeed, NewFeed}
    \cup {Unreadable(NewFeed, name) : name \in ArchiveMembers}
    \cup {Without(NewFeed, name) : name \in ArchiveMembers}
    \cup {[NewFeed EXCEPT !.gtfs.zip_ok = FALSE],
          [NewFeed EXCEPT !.calendar.ok = FALSE],
          [NewFeed EXCEPT !.calendar.exists = FALSE]}

InitReload ==
    /\ fs = OldFeed
    /\ now = combine(Today, strptime_HMS(<<6, 0, 0>>))
    /\ InitParser
    /\ net = Offline

\* the daily update: download_gtfs_file writes the body of the response to
\* GTFS_FILE_PATH and generates calendar.txt from it
Download ==
    /\ \E f \in Archives : f # fs /\ fs' = f
    /\ ret' = [op |-> "download_gtfs_file"]
    /\ UNCHANGED <<data, stop_id_map, ready, now>>
    /\ UNCHANGED aside

NextReload ==
    \/ LoadData
    \/ Download
    \/ \E stop_id \in Stops : GetNextDepartures(stop_id)
    \/ \E line \in Lines, stop_id \in Stops : GetDeparturesForWeek(line, stop_id)

SpecReload == InitReload /\ [][NextReload]_vars

(***************************************************************************)
(* Properties of service_is_active_on_date, on the last call of it.        *)
(***************************************************************************)
ServiceCalled == ret.op = "service_is_active_on_date"

\* the exception types of the calendar_dates rows matching the call
MatchingTypes ==
    {data["calendar_dates"][i].exception_type :
        i \in {j \in DOMAIN data["calendar_dates"] :
                 /\ data["calendar_dates"][j].service_id = ret.service_id
                 /\ data["calendar_dates"][j].date = strftime_Ymd(ret.check_date)}}

\* the calendar rows of the service of the call
ServiceRows ==
    {i \in DOMAIN data["calendar"] : data["calendar"][i].service_id = ret.service_id}

\* the weekday flag of a calendar row for the dates asked about: 2024-03-14 is a
\* Thursday, 2024-03-15 a Friday, 2024-03-16 a Saturday
FlagOn(row, date) ==
    CASE strftime_Ymd(date) = 20240314 -> row.thursday
      [] strftime_Ymd(date) = 20240315 -> row.friday
      [] strftime_Ymd(date) = 20240316 -> row.saturday

\* what the base calendar row says about a date
RowSaysActive(row, date) ==
    /\ row.start_date <= strftime_Ymd(date)
    /\ strftime_Ymd(date) <= row.end_date
    /\ FlagOn(row, date) = "1"

\* C1: when calendar_dates holds a matching row, the call returns true if the
\* exception is Added and false if it is Removed, whatever the base calendar says
C1_ExceptionDecides ==
    (ServiceCalled /\ MatchingTypes # {}) =>
        /\ ret.exc = "None"
        /\ ("1" \in MatchingTypes /\ "2" \notin MatchingTypes) => ret.value = TRUE
        /\ ("2" \in MatchingTypes /\ "1" \notin MatchingTypes) => ret.value = FALSE

\* scenario A: the date is removed from a service whose calendar row covers it
C1_Witness ==
    /\ ServiceCalled
    /\ MatchingTypes = {"2"}
    /\ \E i \in ServiceRows : RowSaysActive(data["calendar"][i], ret.check_date)
    /\ ret.value = FALSE

\* C2: when several calendar_dates rows match, the call returns true if any of
\* them is Added, in whatever order the rows occur, and false only when none is
C2_AnyAddedWins ==
    (ServiceCalled /\ MatchingTypes # {}) =>
        /\ ret.exc = "None"
        /\ ret.value = ("1" \in MatchingTypes)

\* C3: with no matching calendar_dates row the call returns false for a service
\* without calendar row, and for a service with one calendar row it returns true
\* exactly when the date is in [start_date, end_date], ends included, and the
\* flag of the date's weekday is set
C3_CalendarFallback ==
    (ServiceCalled /\ MatchingTypes = {}) =>
        /\ ret.exc = "None"
        /\ ServiceRows = {} => ret.value = FALSE
        /\ \A i \in ServiceRows :
              ServiceRows = {i} =>
                  ret.value = RowSaysActive(data["calendar"][i], ret.check_date)

\* the date asked about is the start_date and the end_date of the only row
C3_Witness ==
    /\ ServiceCalled
    /\ MatchingTypes = {}
    /\ \E i \in ServiceRows :
          /\ ServiceRows = {i}
          /\ data["calendar"][i].start_date = strftime_Ymd(ret.check_date)
          /\ data["calendar"][i].end_date = strftime_Ymd(ret.check_date)
    /\ ret.value = TRUE

(***************************************************************************)
(* Properties of get_next_departures, on the last call of it.              *)
(***************************************************************************)
NextCalled == ret.op = "get_next_departures" /\ ret.exc = "None"

\* the departure instants of the entries the call returned for a line
Instants(line) ==
    IF line \in DOMAIN ret.value
    THEN [i \in DOMAIN ret.value[line] |-> ret.value[line][i]["datetime"]]
    ELSE <<>>

\* C4: each line's list returned by get_next_departures has at most 2 entries,
\* in non-decreasing order of departure instant, also when it holds one entry
\* of today and one of tomorrow
C4_AtMostTwoSorted ==
    NextCalled =>
        \A line \in DOMAIN ret.value :
            /\ Len(Instants(line)) <= 2
            /\ \A i, j \in DOMAIN Instants(line) :
                  i < j => DtLeq(Instants(line)[i], Instants(line)[j])

\* a list of one departure of today followed by one of tomorrow
C4_Witness ==
    /\ NextCalled
    /\ \E line \in DOMAIN ret.value :
          /\ Len(Instants(line)) = 2
          /\ Instants(line)[1].date = ret.now.date
          /\ Instants(line)[2].date = ret.now.date + 1

\* the rows of stop_times of a line at the stop of the call
LineRows(line) ==
    {i \in DOMAIN data["stop_times"] :
        /\ data["stop_times"][i].stop_id = ret.args[1]
        /\ DictHas(data["trips"], data["stop_times"][i].trip_id)
        /\ data["trips"].val[data["stop_times"][i].trip_id].route_id = line}

ServiceOf(i) == data["trips"].val[data["stop_times"][i].trip_id].service_id

Runs(i, day) == service_is_active_on_date(data, ServiceOf(i), day).value

SecondOf(i) == strptime_HMS(data["stop_times"][i].departure_time)

\* pool (a): the stop times not before now whose service runs today
PoolA(line) ==
    {i \in LineRows(line) : SecondOf(i) >= ret.now.secs /\ Runs(i, ret.now.date)}

\* pool (b): the stop times whose service runs tomorrow
PoolB(line) == {i \in LineRows(line) : Runs(i, ret.now.date + 1)}

RECURSIVE SortedInstants(_, _)
\* the instants of the rows of a pool on a day, earliest first
SortedInstants(pool, day) ==
    IF pool = {} THEN <<>>
    ELSE LET first == CHOOSE i \in pool : \A j \in pool : SecondOf(i) <= SecondOf(j)
         IN  <<combine(day, SecondOf(first))>> \o SortedInstants(pool \ {first}, day)

FirstTwo(seq) == IF Len(seq) <= 2 THEN seq ELSE SubSeq(seq, 1, 2)

\* C5: the list of a line is the first two elements of pool (a) sorted by
\* instant followed by pool (b) sorted by instant, so that an entry of pool (b)
\* is used only when pool (a) has fewer than 2 entries; a line both of whose
\* pools are empty has no list
C5_TodayThenTomorrow ==
    NextCalled =>
        \A line \in Lines \cup DOMAIN ret.value :
            /\ Instants(line) =
                   FirstTwo(SortedInstants(PoolA(line), ret.now.date)
                            \o SortedInstants(PoolB(line), ret.now.date + 1))
            /\ line \in DOMAIN ret.value <=> PoolA(line) \cup PoolB(line) # {}

\* pool (a) fills the list of a line and pool (b), though not empty, is not used
C5_Witness ==
    /\ NextCalled
    /\ \E line \in DOMAIN ret.value :
          /\ Cardinality(PoolA(line)) = 2
          /\ PoolB(line) # {}
          /\ \A i \in DOMAIN Instants(line) : Instants(line)[i].date = ret.now.date

\* scenario B: line "7" has at stop X the stop times 23:50:00 and 06:00:00 of
\* one trip, whose service runs today and tomorrow, and it is 23:55 today
ScenarioB ==
    /\ NextCalled
    /\ ret.args = <<"X">>
    /\ ret.now = combine(Today, strptime_HMS(<<23, 55, 0>>))
    /\ Cardinality(LineRows("7")) = 2
    /\ {data["stop_times"][i].departure_time : i \in LineRows("7")}
           = {<<23, 50, 0>>, <<6, 0, 0>>}
    /\ Cardinality({data["stop_times"][i].trip_id : i \in LineRows("7")}) = 1
    /\ \A i \in LineRows("7") : Runs(i, Today) /\ Runs(i, Today + 1)

\* C6, as stated: in scenario B the list of line "7" has length 1 and its only
\* entry is tomorrow 06:00
C6_OnlyTomorrowMorning ==
    ScenarioB =>
        Instants("7") = <<combine(Today + 1, strptime_HMS(<<6, 0, 0>>))>>

\* C6, amended: in scenario B the list of line "7" has length 2: tomorrow 06:00
\* followed by tomorrow 23:50; today's 23:50, which is before now, is left out
C6_TomorrowMorningThenEvening ==
    ScenarioB =>
        Instants("7") = <<combine(Today + 1, strptime_HMS(<<6, 0, 0>>)),
                          combine(Today + 1, strptime_HMS(<<23, 50, 0>>))>>

C6_Witness ==
    /\ ScenarioB
    /\ "7" \in DOMAIN ret.value
    /\ \A i \in DOMAIN ret.value["7"] : ret.value["7"][i].service_id = "S"

(***************************************************************************)
(* Properties of get_departures_for_week, on the last call of it.          *)
(***************************************************************************)
WeekCalled == ret.op = "get_departures_for_week" /\ ret.exc = "None"

\* the current instant of the call, on the scale of fromisoformat
NowOfCall == AddSeconds(ret.now, 0 - UtcOffset)

StartOf(event) == fromisoformat(event.start)

EndOf(event) == fromisoformat(event["end"])

\* C7: the list returned by get_departures_for_week is in non-decreasing order
\* of start instant, and holds no event whose end instant, one minute after its
\* start, is before the current instant of the call
C7_SortedNotEnded ==
    WeekCalled =>
        /\ \A i, j \in DOMAIN ret.value :
              i < j => DtLeq(StartOf(ret.value[i]), StartOf(ret.value[j]))
        /\ \A i \in DOMAIN ret.value :
              /\ EndOf(ret.value[i]) = AddSeconds(StartOf(ret.value[i]), 60)
              /\ ~DtLt(EndOf(ret.value[i]), NowOfCall)

\* a list of several events, the first of which has started and not ended
C7_Witness ==
    /\ WeekCalled
    /\ Len(ret.value) >= 2
    /\ DtLt(StartOf(ret.value[1]), NowOfCall)
    /\ \E i \in DOMAIN ret.value : StartOf(ret.value[i]) # StartOf(ret.value[1])

\* the triples (date of the 7 days from today, trip of the line whose service
\* runs on the date, stop_times row of the trip at the stop) whose end instant
\* is not before now
Triples ==
    {t \in (ret.now.date .. ret.now.date + 6) \X (DOMAIN data["trips"].val)
           \X (DOMAIN data["stop_times"]) :
        /\ data["trips"].val[t[2]].route_id = ret.args[1]
        /\ service_is_active_on_date(data, data["trips"].val[t[2]].service_id, t[1]).value
        /\ data["stop_times"][t[3]].trip_id = t[2]
        /\ data["stop_times"][t[3]].stop_id = ret.args[2]
        /\ ~DtLt(AddSeconds(combine(t[1], SecondOf(t[3])), 60), ret.now)}

\* the start of the event of a triple, as the event gives it
TripleStart(t) == isoformat(combine(t[1], SecondOf(t[3])))

\* C8: get_departures_for_week returns exactly one event for each such triple,
\* and no event for a date outside the 7 days, for a trip of another line or
\* for a service that does not run on the date of the event
C8_OneEventPerTriple ==
    WeekCalled =>
        /\ Len(ret.value) = Cardinality(Triples)
        /\ \A start \in {TripleStart(t) : t \in Triples}
                        \cup {ret.value[i].start : i \in DOMAIN ret.value} :
              Cardinality({i \in DOMAIN ret.value : ret.value[i].start = start})
                  = Cardinality({t \in Triples : TripleStart(t) = start})
        /\ \A i \in DOMAIN ret.value : ret.value[i].line = ret.args[1]

\* a week in which a trip of the line runs on some days only, and a stop time
\* of today has ended
C8_Witness ==
    /\ WeekCalled
    /\ ret.value # <<>>
    /\ \E trip \in DOMAIN data["trips"].val, a, b \in ret.now.date .. ret.now.date + 6 :
          /\ data["trips"].val[trip].route_id = ret.args[1]
          /\ \E i \in DOMAIN data["stop_times"] :
                /\ data["stop_times"][i].trip_id = trip
                /\ data["stop_times"][i].stop_id = ret.args[2]
                /\ SecondOf(i) + 60 < ret.now.secs
          /\ service_is_active_on_date(data, data["trips"].val[trip].service_id, a).value
          /\ ~service_is_active_on_date(data, data["trips"].val[trip].service_id, b).value

(***************************************************************************)
(* The queries keep no state.                                              *)
(***************************************************************************)
Queries == {"get_next_departures", "get_departures_for_week"}

C10_FailedLoadKeepsTables ==
    [][(ready /\ ret'.op = "load_data" /\ ~ret'.value) =>
          (data' = data /\ stop_id_map' = stop_id_map)]_vars

(***************************************************************************)
(* Loading while a query runs.  A second entry set up on the integration   *)
(* calls load_data on the parser the entities of the first entry query;    *)
(* the calendar entity runs its query on an executor thread, so the reads  *)
(* of the query and the assignments of load_data interleave.  A read or an *)
(* assignment of one table is one step; the query is modelled with one     *)
(* read of each table, the first the code makes.                           *)
(***************************************************************************)
\* the tables in the order load_data assigns them
LoadOrder == <<"stops", "stop_times", "trips", "calendar", "calendar_dates">>

\* the tables in the order get_departures_for_week first reads them
ReadOrder == <<"trips", "calendar_dates", "calendar", "stop_times", "stops">>

\* the element after x in the sequence order, "end" after the last one
After(order, x) ==
    IF x = order[Len(order)] THEN "end"
    ELSE order[(CHOOSE i \in DOMAIN order : order[i] = x) + 1]

\* the step of load_data that reads the source of a table and assigns it
ReadTable(table, f, s) ==
    CASE table = "stops" -> ReadStops(f.gtfs.members, s)
      [] table = "stop_times" -> ReadStopTimes(f.gtfs.members, s)
      [] table = "trips" -> ReadTrips(f.gtfs.members, s)
      [] table = "calendar" -> ReadCalendar(f.calendar, s)
      [] table = "calendar_dates" -> ReadCalendarDates(f.gtfs.members, s)

\* load_data up to the check of the required members
LoadBegin ==
    /\ loader = "idle"
    /\ \/ /\ load_data(fs, data, stop_id_map).ok
          /\ loader' = LoadOrder[1]
          /\ ret' = [op |-> "load_data", exc |-> "None", value |-> "pending"]
       \/ /\ ~(/\ fs.gtfs.exists
               /\ fs.gtfs.zip_ok
               /\ {"stops.txt", "stop_times.txt", "trips.txt"}
                      \subseteq DOMAIN fs.gtfs.members)
          /\ loader' = "idle"
          /\ ret' = [op |-> "load_data", exc |-> "None", value |-> FALSE]
    /\ UNCHANGED <<fs, data, stop_id_map, now, ready, thread, net, hass, sensors>>

\* the next table of load_data, and its return after the last one
LoadStep ==
    /\ loader # "idle"
    /\ \E r \in {ReadTable(loader, fs, [ok |-> TRUE, data |-> data,
                                        stop_id_map |-> stop_id_map])} :
          /\ data' = r.data
          /\ stop_id_map' = r.stop_id_map
          /\ loader' = IF r.ok /\ After(LoadOrder, loader) # "end"
                       THEN After(LoadOrder, loader) ELSE "idle"
          /\ ready' = (ready \/ (r.ok /\ After(LoadOrder, loader) = "end"))
          /\ ret' = IF r.ok /\ After(LoadOrder, loader) # "end" THEN ret
                    ELSE [op |-> "load_data", exc |-> "None", value |-> r.ok]
    /\ UNCHANGED <<fs, now, thread, net, hass, sensors>>

\* async_update_event_list hands update_departures to the executor
Submit(line, stop_id) ==
    /\ ready
    /\ thread.pc = "idle"
    /\ thread' = [pc |-> ReadOrder[1], line |-> line, stop_id |-> stop_id,
                  seen |-> [k \in {} |-> {}]]
    /\ UNCHANGED <<fs, data, stop_id_map, now, ready, ret, loader, net, hass, sensors>>

\* the thread evaluates self.data[table]
ThreadRead ==
    /\ thread.pc \in {ReadOrder[i] : i \in DOMAIN ReadOrder}
    /\ thread' = [thread EXCEPT !.seen = SetKey(@, thread.pc, data[thread.pc]),
                                !.pc = After(ReadOrder, thread.pc)]
    /\ UNCHANGED <<fs, data, stop_id_map, now, ready, ret, loader, net, hass, sensors>>

\* the query returns what it made of the tables it read
ThreadReturn ==
    /\ thread.pc = "end"
    /\ \E r \in {get_departures_for_week(thread.seen, now, thread.line,
                                         thread.stop_id)} :
          ret' = [op |-> "get_departures_for_week",
                  args |-> <<thread.line, thread.stop_id>>, now |-> now,
                  again |-> FALSE, exc |-> r.exc, value |-> r.value]
    /\ thread' = [pc |-> "idle"]
    /\ UNCHANGED <<fs, data, stop_id_map, now, ready, loader, net, hass, sensors>>

\* the archive and calendar.txt are replaced by those of the other timetable
Replace ==
    /\ loader = "idle"
    /\ fs' \in {OldFeed, NewFeed} \ {fs}
    /\ ret' = [op |-> "download_gtfs_file"]
    /\ UNCHANGED <<data, stop_id_map, ready, now, loader, thread, net, hass, sensors>>

NextInterleave ==
    \/ LoadBegin
    \/ LoadStep
    \/ Replace
    \/ \E line \in Lines, stop_id \in Stops : Submit(line, stop_id)
    \/ ThreadRead
    \/ ThreadReturn

SpecInterleave == InitReload /\ [][NextInterleave]_vars

\* the tables a load of the feed f leaves in the parser
TablesOf(f) == load_data(f, [k \in {} |-> {}], [k \in {} |-> {}]).data

\* C11: a query that runs while load_data runs reads all its tables from one
\* single load: the tables it has read are those of the old feed, or those of
\* the new feed, never some of each.
C11_QueryReadsOneLoad ==
    thread.pc # "idle" =>
        \E f \in {OldFeed, NewFeed} :
            \A t \in DOMAIN thread.seen : thread.seen[t] = TablesOf(f)[t]

(***************************************************************************)
(* Properties of load_data, on the last call of it.                        *)
(***************************************************************************)
LoadCalled == ret.op = "load_data"

RequiredMembers == {"stops.txt", "stop_times.txt", "trips.txt"}

\* the archive opens and its three required members are present and parse
RequiredParse ==
    /\ fs.gtfs.exists
    /\ fs.gtfs.zip_ok
    /\ \A n \in RequiredMembers : Readable(fs.gtfs.members, n)

\* the source of the calendar (of calendar_dates) is absent or does not read
CalendarUnavailable == ~fs.calendar.exists \/ ~fs.calendar.ok

CalendarDatesUnavailable == ~Readable(fs.gtfs.members, "calendar_dates.txt")

\* C12: load_data fails when a required member is absent from the archive,
\* and, when the three required members are present and parse, succeeds,
\* with an empty calendar (calendar_dates) table when the source of the
\* calendar (calendar_dates) is absent or cannot be read.
C12_OptionalSourcesDefaultEmpty ==
    LoadCalled =>
        /\ (fs.gtfs.exists /\ fs.gtfs.zip_ok
              /\ ~(RequiredMembers \subseteq DOMAIN fs.gtfs.members))
               => ~ret.value
        /\ RequiredParse =>
              /\ ret.value
              /\ CalendarUnavailable => data["calendar"] = <<>>
              /\ CalendarDatesUnavailable => data["calendar_dates"] = <<>>

(***************************************************************************)
(* Feeds with defects: a departure time of hour 24, a stop time of a trip  *)
(* that trips.txt does not hold, a stop time at a stop that stops.txt does *)
(* not hold, a calendar row whose start_date is not a date, and calendar   *)
(* and calendar_dates rows with an empty service_id.                       *)
(***************************************************************************)
DefectStopTimeRows ==
    {StopTimeRow("t1", "X", <<6, 0, 0>>),
     StopTimeRow("t1", "X", <<24, 10, 0>>),
     StopTimeRow("t2", "X", <<23, 50, 0>>),
     StopTimeRow("t9", "X", <<7, 0, 0>>),
     StopTimeRow("t1", "W", <<6, 0, 0>>)}

\* "S" has a start_date of 30 February
BadStart ==
    <<  <<CalendarRow("S", AllDays, 20240230, 20241231),
          CalendarRow("T", AllDays, 20240101, 20241231)>>,
        <<>>  >>

\* the same, with today added to "S" as an exception
BadStartAdded == <<BadStart[1], <<CalendarDateRow("S", 20240228, "1")>> >>

\* a calendar row without service_id
EmptyService ==
    <<EveryDay[1] \o <<CalendarRow("", AllDays, 20240101, 20241231)>>, <<>> >>

\* a calendar_dates row without service_id
EmptyServiceAdded == <<EveryDay[1], <<CalendarDateRow("", 20240228, "1")>> >>

DefectCalendars == {EveryDay, BadStart, BadStartAdded, EmptyService, EmptyServiceAdded}

DefectStops == {"X", "W"}

DefectServices == {"S", "T", ""}

InitDefects ==
    /\ \E stop_times \in BoundedSeq(DefectStopTimeRows, MaxStopTimes),
          c \in DefectCalendars :
          fs = Feed(BaseStops, stop_times, BaseTrips, c[1], c[2])
    /\ now = combine(Today, strptime_HMS(<<6, 0, 0>>))
    /\ InitParser
    /\ net = Offline

NextDefects ==
    \/ LoadData
    \/ \E stop_id \in DefectStops : GetNextDepartures(stop_id)
    \/ \E line \in Lines, stop_id \in DefectStops : GetDeparturesForWeek(line, stop_id)
    \/ \E service_id \in DefectServices, check_date \in {Today, Today + 1} :
          ServiceIsActiveOnDate(service_id, check_date)

SpecDefects == InitDefects /\ [][NextDefects]_vars

(***************************************************************************)
(* Properties of the two queries on feeds with defects, on the last call.  *)
(***************************************************************************)
QueryCalled == ret.op \in {"get_next_departures", "get_departures_for_week"}

\* the stop the last query asked about
StopOfCall == ret.args[Len(ret.args)]

\* the last query made again on the tables d, at the clock value of the call
QueryOn(d) ==
    IF ret.op = "get_next_departures"
    THEN get_next_departures(d, ret.now, ret.args[1])
    ELSE get_departures_for_week(d, ret.now, ret.args[1], ret.args[2])

\* the last query ended as r: same exception, same value
SameOutcome(r) == ret.exc = r.exc /\ ret.value = r.value

\* the text is HH:MM:SS with the hour in 0..23
ParsesAsTime(text) == text[1] \in 0..23 /\ text[2] \in 0..59 /\ text[3] \in 0..59

\* the text is the YYYYMMDD of a day of the calendar
ParsesAsDate(text) ==
    /\ text \div 10000 \in 1..9999
    /\ (text \div 100) % 100 \in 1..12
    /\ text % 100 \in 1..DaysInMonth(text \div 10000, (text \div 100) % 100)

ValidCalendar ==
    \A i \in DOMAIN data["calendar"] :
        /\ ParsesAsDate(data["calendar"][i].start_date)
        /\ ParsesAsDate(data["calendar"][i].end_date)

\* the tables with the rows of one of them that satisfy Keep(row) only
Filtered(table, Keep(_)) == SetKey(data, table, SelectSeq(data[table], Keep))

\* C13: a stop-time row whose departure_time does not parse as HH:MM:SS with
\* hour 0..23 is left out of the result of both queries, the other rows are
\* still returned and the query does not fail: the query ends as it does on
\* the table without these rows, and ends without exception when the
\* calendar is valid and the stop is known.
C13_UnparsableTimesLeftOut ==
    QueryCalled =>
        /\ SameOutcome(QueryOn(Filtered("stop_times",
                                        LAMBDA row : ParsesAsTime(row.departure_time))))
        /\ (ValidCalendar /\ DictHas(data["stops"], StopOfCall)) => ret.exc = "None"

\* a week query of a stop that has a row of hour 24 and returned events
C13_Witness ==
    /\ ret.op = "get_departures_for_week"
    /\ ret.exc = "None"
    /\ ret.value # <<>>
    /\ \E i \in DOMAIN data["stop_times"] :
          /\ data["stop_times"][i].stop_id = StopOfCall
          /\ DictHas(data["trips"], data["stop_times"][i].trip_id)
          /\ data["trips"].val[data["stop_times"][i].trip_id].route_id = ret.args[1]
          /\ ~ParsesAsTime(data["stop_times"][i].departure_time)

\* the last call, a query or a check of a service, made again on the tables d
CallOn(d) ==
    IF ServiceCalled
    THEN service_is_active_on_date(d, ret.service_id, ret.check_date)
    ELSE QueryOn(d)

\* C14: a calendar row whose start_date or end_date is not a valid YYYYMMDD
\* date never makes service_is_active_on_date or a query fail, and counts as
\* excluded: the call ends as it does on the calendar without these rows.
C14_InvalidDatesExcluded ==
    (ServiceCalled \/ QueryCalled) =>
        SameOutcome(CallOn(Filtered("calendar",
            LAMBDA row : ParsesAsDate(row.start_date) /\ ParsesAsDate(row.end_date))))

\* C15: on a loaded parser the two queries return a result and never fail,
\* for every stop id and line id, a stop id that has stop-time rows but no
\* row in the stops table included (the calendar holding valid dates).
C15_QueriesNeverFail ==
    (QueryCalled /\ ValidCalendar) => ret.exc = "None"

\* C17: a stop-time row whose trip_id is not a key of the trips table never
\* produces an entry in the result of a query, whatever calendar and
\* calendar_dates hold: the query ends as it does on the stop_times table
\* without these rows.
C17_OrphanRowsGiveNoEntry ==
    QueryCalled =>
        SameOutcome(QueryOn(Filtered("stop_times",
                                     LAMBDA row : DictHas(data["trips"], row.trip_id))))

(***************************************************************************)
(* Several calendar rows of one service.                                   *)
(***************************************************************************)
\* C16: when calendar holds several rows of the service, the decision of the
\* base calendar (date range and weekday flag) is taken from the last of them
\* in table order.
C16_LastRowDecides ==
    (ServiceCalled /\ MatchingTypes = {} /\ ServiceRows # {}) =>
        /\ ret.exc = "None"
        /\ \A i \in ServiceRows :
              (\A j \in ServiceRows : j <= i) =>
                  ret.value = RowSaysActive(data["calendar"][i], ret.check_date)

(***************************************************************************)
(* The keys of the mapping get_next_departures returns.                    *)
(***************************************************************************)
\* C18: the mapping returned by get_next_departures never holds a line whose
\* list is empty: a line is a key of the result exactly when at least one
\* departure of that line qualifies in today's or tomorrow's pool.
C18_NoEmptyList ==
    NextCalled =>
        \A line \in Lines \cup DOMAIN ret.value :
            /\ line \in DOMAIN ret.value => ret.value[line] # <<>>
            /\ line \in DOMAIN ret.value <=> PoolA(line) \cup PoolB(line) # {}

\* line "9" stops at the stop but none of its departures qualifies, line "7"
\* is returned with a departure of tomorrow only
C18_Witness ==
    /\ NextCalled
    /\ LineRows("9") # {}
    /\ "9" \notin DOMAIN ret.value
    /\ "7" \in DOMAIN ret.value
    /\ PoolA("7") = {}

(***************************************************************************)
(* gtfs_downloader.download_gtfs_file.  The server and the metadata file   *)
(* are the record net:                                                     *)
(*   fresh  whether the local archive is younger than 24 hours,            *)
(*   url    what get_gtfs_url returns: the link found on the page, "None"  *)
(*          when the page, its status or its parse fails,                  *)
(*   head   what get_current_etag returns: the ETag of the HEAD response,  *)
(*          "None" when the request fails or carries no ETag,              *)
(*   get    how session.get ends: "200", another status, or "error" when   *)
(*          the transport raises aiohttp.ClientError,                      *)
(*   etag   the ETag header of the GET response, "None" without one,       *)
(*   body   the archive the GET response carries,                          *)
(*   saved  metadata.get("etag") of gtfs_metadata.json, "None" without one.*)
(* A call ends as [exc, value, fs, net, trace]: what it raises or returns, *)
(* the files and the metadata it leaves, and the calls it made, in order.  *)
(***************************************************************************)
\* validity_years=30: the years the generated calendar runs
validity_years == 30

\* the three rows generate_calendar_from_feed_info writes for a feed_version
GeneratedRows(feed_version, today) ==
    <<CalendarRow(feed_version \o "_NW", <<"0", "0", "0", "0", "0", "0", "1">>,
                  strftime_Ymd(today), strftime_Ymd(today + 365 * validity_years)),
      CalendarRow(feed_version \o "_PF", <<"1", "1", "1", "1", "1", "0", "0">>,
                  strftime_Ymd(today), strftime_Ymd(today + 365 * validity_years)),
      CalendarRow(feed_version \o "_SW", <<"0", "0", "0", "0", "0", "1", "0">>,
                  strftime_Ymd(today), strftime_Ymd(today + 365 * validity_years))>>

\* feed_version of the first row of feed_info.txt, "" when the archive does not
\* open, has no such member, or the member does not read or has no row
feed_version(gtfs) ==
    IF ~gtfs.exists \/ ~gtfs.zip_ok THEN ""
    ELSE IF ~Readable(gtfs.members, "feed_info.txt") THEN ""
    ELSE IF gtfs.members["feed_info.txt"].rows = <<>> THEN ""
    ELSE gtfs.members["feed_info.txt"].rows[1].feed_version

\* the files after generate_calendar_from_feed_info: calendar.txt is written
\* when a feed_version is found, and left as it is otherwise
generate_calendar_from_feed_info(f, today) ==
    IF feed_version(f.gtfs) = "" THEN f
    ELSE [f EXCEPT !.calendar = [exists |-> TRUE, ok |-> TRUE,
                                 rows |-> GeneratedRows(feed_version(f.gtfs), today)]]

Ended(exc, value, f, n, trace) ==
    [exc |-> exc, value |-> value, fs |-> f, net |-> n, trace |-> trace]

\* if not os.path.exists(calendar_txt_path): generate; return True, None
UseLocalCopy(f, n, t, trace) ==
    IF f.calendar.exists
    THEN Ended("None", <<TRUE, "None">>, f, n, trace \o <<"exists calendar.txt">>)
    ELSE Ended("None", <<TRUE, "None">>, generate_calendar_from_feed_info(f, t.date), n,
               trace \o <<"exists calendar.txt", "generate_calendar_from_feed_info">>)

\* the end of the function: the local archive when there is one
Fallback(f, n, t, trace) ==
    IF f.gtfs.exists THEN UseLocalCopy(f, n, t, trace)
    ELSE Ended("None", <<FALSE, "None">>, f, n, trace)

\* the response of status 200: the archive is written, the ETag saved and
\* calendar.txt generated
Downloaded(f, n, t, trace) ==
    Ended("None", <<TRUE, n.url>>,
          generate_calendar_from_feed_info([f EXCEPT !.gtfs = n.body], t.date),
          [n EXCEPT !.fresh = TRUE, !.saved = IF n.etag # "None" THEN n.etag ELSE @],
          trace \o <<"generate_calendar_from_feed_info">>)

\* session.get(gtfs_url)
SessionGet(f, n, t, trace) ==
    CASE n.get = "error" -> Ended("ClientError", FALSE, f, n, trace)
      [] n.get = "200" -> Downloaded(f, n, t, trace)
      [] OTHER -> Fallback(f, n, t, trace)

\* the download, with the URL when the ETag check has found it already
Fetch(f, n, t, trace) ==
    IF n.url = "None" THEN Fallback(f, n, t, trace \o <<"get_gtfs_url">>)
    ELSE SessionGet(f, n, t,
                    trace \o (IF trace = <<>> THEN <<"get_gtfs_url">> ELSE <<>>) \o <<"session.get">>)

\* the local archive older than 24 hours: the ETag of the server is compared
\* with the saved one
CheckETag(f, n, t) ==
    IF n.url = "None" THEN Fetch(f, n, t, <<"get_gtfs_url">>)
    ELSE IF n.head # "None" /\ n.saved = n.head
    THEN Ended("None", <<TRUE, "None">>, f, n, <<"get_gtfs_url", "get_current_etag">>)
    ELSE Fetch(f, n, t, <<"get_gtfs_url", "get_current_etag">>)

download_gtfs_file(f, n, t, force_update) ==
    IF ~force_update /\ f.gtfs.exists
    THEN IF n.fresh THEN UseLocalCopy(f, n, t, <<>>)
         ELSE CheckETag(f, n, t)
    ELSE Fetch(f, n, t, <<>>)

\* async_setup_entry and the daily scheduler call it with force_update=False,
\* the config flow with force_update=True
DownloadGtfsFile(force_update) ==
    /\ \E r \in {download_gtfs_file(fs, net, now, force_update)} :
          /\ fs' = r.fs
          /\ net' = r.net
          /\ ret' = [op |-> "download_gtfs_file", force_update |-> force_update,
                     before |-> [gtfs |-> fs.gtfs.exists, calendar |-> fs.calendar.exists],
                     exc |-> r.exc, value |-> r.value, trace |-> r.trace]
    /\ UNCHANGED <<data, stop_id_map, now, ready, loader, thread, hass, sensors>>

\* a day passes: the local archive is older than 24 hours
Age ==
    /\ net.fresh
    /\ net' = [net EXCEPT !.fresh = FALSE]
    /\ ret' = [op |-> "tick"]
    /\ UNCHANGED <<fs, data, stop_id_map, now, ready, loader, thread, hass, sensors>>

\* the feed with a feed_info.txt member
WithFeedInfo(f, version) ==
    [f EXCEPT !.gtfs.members =
        [n \in DOMAIN f.gtfs.members \cup {"feed_info.txt"} |->
            IF n = "feed_info.txt" THEN Member(<<[feed_version |-> version]>>)
            ELSE f.gtfs.members[n]]]

\* the feed without the calendar.txt beside the archive
WithoutCalendar(f) ==
    [f EXCEPT !.calendar = [exists |-> FALSE, ok |-> FALSE, rows |-> <<>>]]

\* no archive at GTFS_FILE_PATH and no calendar.txt
NoFile ==
    [gtfs |-> [exists |-> FALSE, zip_ok |-> FALSE, members |-> <<>>],
     calendar |-> [exists |-> FALSE, ok |-> FALSE, rows |-> <<>>]]

Disks ==
    {NoFile,
     WithFeedInfo(OldFeed, "v1"),
     WithoutCalendar(WithFeedInfo(OldFeed, "v1")),
     WithoutCalendar(OldFeed)}

Servers ==
    [fresh : BOOLEAN,
     url   : {"None", "https://zimslupsk.pl/gtfs.zip"},
     head  : {"None", "e1", "e2"},
     get   : {"200", "404", "error"},
     etag  : {"None", "e2"},
     body  : {NewFeed.gtfs, WithFeedInfo(NewFeed, "v2").gtfs},
     saved : {"None", "e1"}]

InitDownload ==
    /\ fs \in Disks
    /\ now = combine(Today, strptime_HMS(<<6, 0, 0>>))
    /\ InitParser
    /\ net \in Servers

NextDownload ==
    \/ \E force_update \in BOOLEAN : DownloadGtfsFile(force_update)
    \/ Age

SpecDownload == InitDownload /\ [][NextDownload]_vars

(***************************************************************************)
(* Properties of download_gtfs_file, on the last call of it.               *)
(***************************************************************************)
DownloadCalled == ret.op = "download_gtfs_file" /\ "trace" \in DOMAIN ret

Made(call) == \E i \in DOMAIN ret.trace : ret.trace[i] = call

\* C19: whenever download_gtfs_file returns success, on any of its paths, it
\* has checked whether calendar.txt exists and has called
\* generate_calendar_from_feed_info when it did not exist.
C19_CalendarEnsuredOnSuccess ==
    (DownloadCalled /\ ret.exc = "None" /\ ret.value[1]) =>
        /\ Made("exists calendar.txt") \/ Made("generate_calendar_from_feed_info")
        /\ ~ret.before.calendar => Made("generate_calendar_from_feed_info")

\* C20: every call of download_gtfs_file ends by returning (True, URL) after a
\* download, (True, None) when the local copy is used or (False, None) on
\* error; a failure of the URL discovery or of the GET request is turned into
\* (True, None) when a local file exists and (False, None) when none exists,
\* and no exception reaches the caller.
C20_FailuresAreReturned ==
    DownloadCalled =>
        /\ ret.exc = "None"
        /\ ret.value[2] # "None" => (ret.value[1] /\ net.fresh)
        /\ (ret.value[2] = "None" /\ Made("get_gtfs_url"))
               => ret.value[1] = ret.before.gtfs

(***************************************************************************)
(* The daily update.  hass holds what Home Assistant keeps for the entry:  *)
(*   started    whether the homeassistant_started event has fired,         *)
(*   setup      whether the entry is set up,                               *)
(*   setups     how many times it has been set up,                         *)
(*   listeners  the start_scheduler callbacks waiting for the event,       *)
(*   tasks      the tasks made of schedule_daily_random_update, each at    *)
(*              "plan" (top of the loop), "sleep" (in asyncio.sleep, with  *)
(*              the instant read and the target computed) or "cancelled",  *)
(*   scheduler  hass.data[scheduler_key]: the index of a task, 0 for none. *)
(* net carries mtime, the modification time of the archive, from which     *)
(* its age is computed when the clock moves.                               *)
(***************************************************************************)
MaxSetups == 2
MaxDays == 2

\* a set-up registers one start_scheduler, which makes one task
TaskIds == 1..MaxSetups

\* get_random_update_time: random.randint(start_seconds, end_seconds)
start_seconds == 10
end_seconds == 14340

\* the draws of the model: both ends of the range
RandomSeconds == {start_seconds, end_seconds}

\* the seconds from the instant a to the instant b
SecondsBetween(a, b) == (b.date - a.date) * 86400 + b.secs - a.secs

\* target_datetime of an iteration that reads the clock at t
Target(t, random_seconds) ==
    IF DtLeq(combine(t.date, random_seconds), t)
    THEN combine(t.date + 1, random_seconds)
    ELSE combine(t.date, random_seconds)

\* scheduler_task.cancel() on hass.data[scheduler_key], when it holds a task
CancelScheduler(h) ==
    IF h.scheduler = 0 THEN h.tasks
    ELSE [h.tasks EXCEPT ![h.scheduler].pc = "cancelled"]

\* the metadata after a call of download_gtfs_file at t: a written archive
\* has t as its modification time
Touched(r, t) ==
    IF r.exc = "None" /\ r.value[2] # "None" THEN [r.net EXCEPT !.mtime = t]
    ELSE r.net

\* the end of async_setup_entry once the archive is there and loaded: the task
\* kept for the entry is cancelled and start_scheduler waits for the event
Registered(h) ==
    [h EXCEPT !.tasks = CancelScheduler(h), !.listeners = @ + 1,
              !.setup = TRUE, !.setups = @ + 1]

\* async_setup_entry, with the download r and the load l it makes
SetupEnds(r, l) ==
    /\ fs' = r.fs
    /\ net' = Touched(r, now)
    /\ IF r.exc = "None" /\ r.value[1]
       THEN /\ data' = l.data
            /\ stop_id_map' = l.stop_id_map
            /\ ready' = (ready \/ l.ok)
            /\ hass' = IF l.ok THEN Registered(hass) ELSE hass
            /\ ret' = [op |-> "async_setup_entry",
                       exc |-> IF l.ok THEN "None" ELSE "ConfigEntryNotReady",
                       value |-> l.ok]
       ELSE /\ UNCHANGED <<data, stop_id_map, ready, hass>>
            /\ ret' = [op |-> "async_setup_entry",
                       exc |-> IF r.exc = "None" THEN "ConfigEntryNotReady" ELSE r.exc,
                       value |-> FALSE]

SetupEntry ==
    /\ ~hass.setup
    /\ hass.setups < MaxSetups
    /\ \E r \in {download_gtfs_file(fs, net, now, FALSE)} :
          \E l \in {load_data(r.fs, data, stop_id_map)} : SetupEnds(r, l)
    /\ UNCHANGED <<now, loader, thread, sensors>>

\* async_unload_entry: the platforms are unloaded and the task kept for the
\* entry is cancelled
UnloadEntry ==
    /\ hass.setup
    /\ hass' = [hass EXCEPT !.tasks = CancelScheduler(hass), !.setup = FALSE]
    /\ ret' = [op |-> "async_unload_entry"]
    /\ UNCHANGED <<fs, data, stop_id_map, now, ready, loader, thread, net, sensors>>

\* the homeassistant_started event: every start_scheduler that listens makes a
\* task and stores it in hass.data[scheduler_key]
Started ==
    /\ ~hass.started
    /\ hass' = [hass EXCEPT
                  !.started = TRUE,
                  !.listeners = 0,
                  !.tasks = @ \o [i \in 1..hass.listeners |->
                                     [pc |-> "plan", planned |-> now, target |-> now]],
                  !.scheduler = IF hass.listeners = 0 THEN @
                                ELSE Len(hass.tasks) + hass.listeners]
    /\ ret' = [op |-> "homeassistant_started"]
    /\ UNCHANGED <<fs, data, stop_id_map, now, ready, loader, thread, net, sensors>>

\* the top of the loop of a task: the clock is read, the time drawn and the
\* target computed, and the task sleeps
Plan(i) ==
    /\ i \in DOMAIN hass.tasks
    /\ hass.tasks[i].pc = "plan"
    /\ \E random_seconds \in RandomSeconds :
          /\ Target(now, random_seconds).date <= Today + MaxDays
          /\ hass' = [hass EXCEPT !.tasks[i] =
                         [pc |-> "sleep", planned |-> now,
                          target |-> Target(now, random_seconds)]]
    /\ ret' = [op |-> "asyncio.sleep"]
    /\ UNCHANGED <<fs, data, stop_id_map, now, ready, loader, thread, net, sensors>>

\* the instant the sleep of a task ends: its target, or now when the clock has
\* passed it already
WakeTime(i) ==
    IF DtLeq(now, hass.tasks[i].target) THEN hass.tasks[i].target ELSE now

\* the sleep of a task ends and the task calls download_gtfs_file
Wake(i) ==
    /\ i \in DOMAIN hass.tasks
    /\ hass.tasks[i].pc = "sleep"
    /\ now' = WakeTime(i)
    /\ \E r \in {download_gtfs_file(
                    fs,
                    [net EXCEPT !.fresh = SecondsBetween(net.mtime, WakeTime(i)) < 86400],
                    WakeTime(i), FALSE)} :
          /\ fs' = r.fs
          /\ net' = Touched(r, WakeTime(i))
          /\ ret' = [op |-> "schedule_daily_random_update", task |-> i,
                     planned |-> hass.tasks[i].planned,
                     target |-> hass.tasks[i].target,
                     force_update |-> FALSE,
                     exc |-> r.exc, value |-> r.value, trace |-> r.trace]
    /\ hass' = [hass EXCEPT !.tasks[i].pc = "plan"]
    /\ UNCHANGED <<data, stop_id_map, ready, loader, thread, sensors>>

\* the server of the scheduler runs: it answers, with the archive of the next
\* timetable under the ETag "e2"
Publishing ==
    [fresh : {TRUE},
     mtime : {combine(Today, 0)},
     url   : {"https://zimslupsk.pl/gtfs.zip"},
     head  : {"e2"},
     get   : {"200", "error"},
     etag  : {"e2"},
     body  : {WithFeedInfo(NewFeed, "v2").gtfs},
     saved : {"None", "e1", "e2"}]

InitScheduler ==
    /\ fs \in {NoFile, WithFeedInfo(OldFeed, "v1")}
    /\ now \in {combine(Today, 5), combine(Today, 7200), combine(Today, 21600)}
    /\ InitParser
    /\ net \in Publishing

NextScheduler ==
    \/ SetupEntry
    \/ UnloadEntry
    \/ Started
    \/ \E i \in TaskIds : Plan(i)
    \/ \E i \in TaskIds : Wake(i)

SpecScheduler == InitScheduler /\ [][NextScheduler]_vars

(***************************************************************************)
(* Properties of the scheduler.                                            *)
(***************************************************************************)
ScheduledRun == ret.op = "schedule_daily_random_update"

\* C21: each iteration of schedule_daily_random_update waits until a target
\* strictly in the future whose time of day lies between 00:00:10 and
\* 03:59:00, then calls download_gtfs_file with force_update=True, so that
\* the run attempts a download whatever the age of the local file.
C21_ScheduledRunDownloads ==
    ScheduledRun =>
        /\ DtLt(ret.planned, ret.target)
        /\ ret.target.secs >= strptime_HMS(<<0, 0, 10>>)
        /\ ret.target.secs <= strptime_HMS(<<3, 59, 0>>)
        /\ ret.force_update
        /\ Made("session.get")

\* the scheduler tasks of the entry that are neither cancelled nor finished
LiveTasks == {i \in DOMAIN hass.tasks : hass.tasks[i].pc \in {"plan", "sleep"}}

\* C22: for every interleaving of async_setup_entry, async_unload_entry and
\* the homeassistant_started event, the entry has at most one live scheduler
\* task while it is set up, and none once async_unload_entry has run: no task
\* is started for an unloaded entry.
C22_OneSchedulerPerEntry ==
    /\ hass.setup => Cardinality(LiveTasks) <= 1
    /\ ~hass.setup => LiveTasks = {}

\* the event loop runs the listeners of homeassistant_started and every task
\* that is ready; nothing makes the user set the entry up or unload it again
SpecSchedulerFair ==
    /\ SpecScheduler
    /\ WF_vars(Started)
    /\ WF_vars(\E i \in TaskIds : Plan(i))
    /\ WF_vars(\E i \in TaskIds : Wake(i))

\* the scheduled run has written a new archive to GTFS_FILE_PATH
NewArchive == ScheduledRun /\ ret.exc = "None" /\ ret.value[2] # "None"

\* the tables of the shared parser are those of the archive on disk
Reloaded == data = TablesOf(fs)

\* C23: after the scheduler's daily run has downloaded a new feed archive,
\* the shared parser's tables are eventually reloaded from it.
C23_NewArchiveIsLoaded == NewArchive ~> Reloaded


(***************************************************************************)
(* The sensor platform: one BusSensor per line of the first result of      *)
(* get_next_departures for the stop of the entry, refreshed by             *)
(* update_sensors every minute.  The variable sensors is the list of the   *)
(* platform's closure, by line (the lines come from a set, their order is  *)
(* not determined); a sensor's field hass tells whether Home Assistant has *)
(* registered it, stop_id is the stop_id of the closure.                   *)
(***************************************************************************)
\* an attribute of a sensor: None, or a value
Unset == <<>>
Value(x) == <<x>>

strftime_HM(dt) == <<dt.secs \div 3600, (dt.secs \div 60) % 60>>

strftime_YmdHM(dt) == [ymd |-> strftime_Ymd(dt.date), hm |-> strftime_HM(dt)]

\* dt_util.as_local on an aware datetime: astimezone, the UTC instant of the
\* datetime shown in the local zone
as_local(dt) == AddSeconds(AddSeconds(dt, 0 - UtcOffset), UtcOffset)

\* BusSensor.update_departures
update_departures(self, dep_list) ==
    IF dep_list = <<>>
    THEN [self EXCEPT !._state = Unset, !._bushour = Unset,
                      !._nextbustime = Unset, !._nextbushour = Unset,
                      !._direction_first = Unset, !._direction_second = Unset]
    ELSE IF Len(dep_list) >= 2
    THEN [self EXCEPT !._state = Value(isoformat(as_local(dep_list[1]["datetime"]))),
                      !._bushour = Value(strftime_HM(as_local(dep_list[1]["datetime"]))),
                      !._direction_first = Value(capitalize(dep_list[1].direction)),
                      !._nextbustime = Value(strftime_YmdHM(as_local(dep_list[2]["datetime"]))),
                      !._nextbushour = Value(strftime_HM(as_local(dep_list[2]["datetime"]))),
                      !._direction_second = Value(capitalize(dep_list[2].direction))]
    ELSE [self EXCEPT !._state = Value(isoformat(as_local(dep_list[1]["datetime"]))),
                      !._bushour = Value(strftime_HM(as_local(dep_list[1]["datetime"]))),
                      !._direction_first = Value(capitalize(dep_list[1].direction)),
                      !._nextbustime = Unset, !._nextbushour = Unset,
                      !._direction_second = Unset]

\* BusSensor.__init__
BusSensor(line, stop_id) ==
    update_departures(
        [line |-> line, stop_id |-> stop_id, hass |-> FALSE,
         _state |-> Unset, _bushour |-> Unset, _nextbustime |-> Unset,
         _nextbushour |-> Unset, _direction_first |-> Unset,
         _direction_second |-> Unset], <<>>)

\* updated.get(line, [])
DepList(updated, line) == IF line \in DOMAIN updated THEN updated[line] ELSE <<>>

\* update_sensors, once get_next_departures has returned updated
update_sensors(list, updated) ==
    IF DOMAIN updated = {} THEN list
    ELSE [line \in DOMAIN list |->
            IF ~list[line].hass THEN list[line]
            ELSE update_departures(list[line], DepList(updated, line))]

\* the sensors of async_setup_entry; async_add_entities has registered them
\* before the first update_sensors, or has not yet
Created(departures_by_line, stop_id, added) ==
    [line \in DOMAIN departures_by_line |->
        [BusSensor(line, stop_id) EXCEPT !.hass = added]]

\* async_setup_entry of sensor.py, with its first update_sensors
SensorSetupEntry(stop_id) ==
    /\ ready
    /\ DOMAIN sensors = {}
    /\ \E r \in {get_next_departures(data, now, stop_id)}, added \in BOOLEAN :
          /\ sensors' = IF r.exc # "None" THEN sensors
                        ELSE update_sensors(Created(r.value, stop_id, added), r.value)
          /\ ret' = [op |-> "sensor.async_setup_entry", args |-> <<stop_id>>, now |-> now,
                     exc |-> r.exc, value |-> r.value]
    /\ UNCHANGED <<fs, data, stop_id_map, now, ready, loader, thread, net, hass>>

\* Home Assistant finishes the registration of the entities
AddEntities ==
    /\ \E line \in DOMAIN sensors : ~sensors[line].hass
    /\ sensors' = [line \in DOMAIN sensors |-> [sensors[line] EXCEPT !.hass = TRUE]]
    /\ ret' = [op |-> "async_add_entities"]
    /\ UNCHANGED <<fs, data, stop_id_map, now, ready, loader, thread, net, hass>>

StopOfSensors == (CHOOSE line \in DOMAIN sensors : TRUE)

\* the callback of async_track_time_interval
UpdateSensors ==
    /\ DOMAIN sensors # {}
    /\ \E r \in {get_next_departures(data, now, sensors[StopOfSensors].stop_id)} :
          /\ sensors' = IF r.exc # "None" THEN sensors ELSE update_sensors(sensors, r.value)
          /\ ret' = [op |-> "update_sensors", now |-> now, exc |-> r.exc, value |-> r.value]
    /\ UNCHANGED <<fs, data, stop_id_map, now, ready, loader, thread, net, hass>>

NextSensors ==
    \/ LoadData
    \/ \E stop_id \in Stops : SensorSetupEntry(stop_id)
    \/ AddEntities
    \/ UpdateSensors
    \/ Tick

SpecSensors == InitDepartures /\ [][NextSensors]_vars

\* update_sensors has run and get_next_departures has returned its result
SensorsUpdated ==
    /\ ret.op \in {"update_sensors", "sensor.async_setup_entry"}
    /\ ret.exc = "None"

\* what the claim says of a registered sensor after a run
ShowsResult(sensor, updated) ==
    IF sensor.line \in DOMAIN updated
    THEN sensor._state = Value(isoformat(updated[sensor.line][1]["datetime"]))
    ELSE /\ sensor._state = Unset
         /\ sensor._bushour = Unset
         /\ sensor._nextbustime = Unset
         /\ sensor._nextbushour = Unset
         /\ sensor._direction_first = Unset
         /\ sensor._direction_second = Unset

\* C24: after every run of update_sensors, the state of each registered
\* BusSensor is the instant of the first entry of its line in the result of
\* that run, and None with all departure attributes None when the result has
\* no entry for its line, the result empty for all lines included.
C24_SensorsShowLastRun ==
    SensorsUpdated =>
        \A line \in DOMAIN sensors :
            sensors[line].hass => ShowsResult(sensors[line], ret.value)


\* the start instants of the events get_departures_for_week returns for the
\* line at the stop and the clock value of the call recorded in ret
WeekStarts(line) ==
    LET week == get_departures_for_week(data, ret.now, line, ret.args[1])
    IN  IF week.exc # "None" THEN {}
        ELSE {week.value[i].start : i \in DOMAIN week.value}

\* the stop of the call recorded in ret is in the stops table
StopIsKnown == "stops" \in DOMAIN data /\ DictHas(data["stops"], ret.args[1])

\* C25: for every stop of the stops table and every line L, each departure
\* instant of get_next_departures(stop)[L] is the start instant of an event
\* of get_departures_for_week(L, stop) computed at the same clock value on
\* the same loaded feed.
C25_SensorAgreesWithCalendar ==
    (NextCalled /\ StopIsKnown) =>
        \A line \in DOMAIN ret.value :
            \A i \in DOMAIN ret.value[line] :
                isoformat(ret.value[line][i]["datetime"]) \in WeekStarts(line)

====
